---- MODULE Spec2Model ----
(***************************************************************************)
(* Strix Viz frontend: the App component (snapshot store, live event       *)
(* ingester, selection coordinator) as a state machine.                    *)
(*                                                                         *)
(* JavaScript values are modelled as TLA+ strings.  Three reserved strings *)
(* stand for the values that are not strings: Null (null), Undefined       *)
(* (undefined / absent field) and NonString (a number on the wire).  No    *)
(* string of the data domains equals one of them.  An absent object        *)
(* (snapshot, selected node) is the record NullObject.                     *)
(***************************************************************************)
EXTENDS Integers, Sequences, FiniteSets, TLC

Null == "<null>"
Undefined == "<undefined>"
NonString == "<number>"
NullObject == [null |-> TRUE]

\* typeof v === "string"
IsString(v) == v \notin {Null, Undefined, NonString}
\* JavaScript truthiness of a string-or-nullish value
Truthy(v) == v \notin {Null, Undefined, ""}
\* a ?? b
Coalesce(a, b) == IF a \in {Null, Undefined} THEN b ELSE a

(***************************************************************************)
(* Bounds of the model.                                                    *)
(***************************************************************************)
MaxClock == 1
MaxInflight == 2
MaxRunsInflight == 1
MaxCalls == 2
\* sockets that are closing at one time
MaxClosing == 1

\* the debounce window of scheduleRefresh and the clock step, in milliseconds
DEBOUNCE_MS == 750
TickMs == 750

(***************************************************************************)
(* Data domains.                                                           *)
(***************************************************************************)
Runs == {"r1", "r2"}
NoRun == ""

\* Date.prototype.toISOString for the instants of the model (ms since epoch)
Pad3(n) == IF n < 10 THEN "00" \o ToString(n)
           ELSE IF n < 100 THEN "0" \o ToString(n) ELSE ToString(n)
Pad2(n) == IF n < 10 THEN "0" \o ToString(n) ELSE ToString(n)
toISOString(ms) ==
    "1970-01-01T" \o Pad2((ms \div 3600000) % 24) \o ":" \o Pad2((ms \div 60000) % 60)
        \o ":" \o Pad2((ms \div 1000) % 60) \o "." \o Pad3(ms % 1000) \o "Z"

\* String.prototype.indexOf(ch, from) with 1-based positions; 0 when absent
RECURSIVE IndexFrom(_, _, _)
IndexFrom(s, ch, i) ==
    IF i > Len(s) THEN 0
    ELSE IF SubSeq(s, i, i) = ch THEN i
    ELSE IndexFrom(s, ch, i + 1)

\* s.split(":", 2): at most the first two ":"-separated segments
Split2(s) ==
    LET p == IndexFrom(s, ":", 1) IN
    IF p = 0 THEN <<s>>
    ELSE LET q == IndexFrom(s, ":", p + 1) IN
         <<SubSeq(s, 1, p - 1),
           IF q = 0 THEN SubSeq(s, p + 1, Len(s)) ELSE SubSeq(s, p + 1, q - 1)>>

\* const [, rawId] = selection.id.split(":", 2)
RawIdOf(id) == LET parts == Split2(id) IN IF Len(parts) >= 2 THEN parts[2] ELSE Undefined

(***************************************************************************)
(* Entities (types.ts).  Fields that no handler reads (first_seen,         *)
(* last_seen, category, description, a vulnerability's ts) are left out.   *)
(***************************************************************************)
Agent(id) == [id |-> id, label |-> "Agent " \o id]
Asset(id) == [id |-> id, label |-> id, url |-> id]
Vulnerability(id, agent, asset, severity) ==
    [id |-> id, agent_id |-> agent, asset_id |-> asset, severity |-> severity]
Edge(id, source, target) ==
    [id |-> id, source |-> source, target |-> target, relation |-> "touches", label |-> Null]

EmptyArgs == <<>>
\* an args field that is absent or not an object
NotAnObject == [notObject |-> TRUE]
ToolCall(id, ts, agent, tool, target, status, summary, args, result) ==
    [id |-> id, ts |-> ts, agent_id |-> agent, tool |-> tool, target |-> target,
     status |-> status, summary |-> summary, args |-> args, result_summary |-> result]

\* tool calls as the backend lists them in a snapshot
SnapCall1 == ToolCall("tc-1", "1970-01-01T00:00:00.050Z", "a1", "nmap", "s1", "OK",
                      "scan", [url |-> "s1"], "2 ports")
SnapCall2 == ToolCall("tc-2", "1970-01-01T00:00:00.100Z", Null, "curl", "http://t", "FAILED",
                      Null, EmptyArgs, Null)

SnapCallSeqs == {<<>>, <<SnapCall1>>, <<SnapCall2, SnapCall1>>}

Graph1 == [agents |-> <<Agent("a1")>>,
           assets |-> <<Asset("s1"), Asset("http://t")>>,
           vulnerabilities |-> <<Vulnerability("v1", "a1", "s1", "High"),
                                 Vulnerability("v2", Null, Null, Null)>>,
           edges |-> <<Edge("e1", "a1", "s1"), Edge("e2", "v1", "s1"), Edge("e3", "a1", "zz")>>]

Snapshot(run, g, calls) ==
    [run_id |-> run, agents |-> g.agents, assets |-> g.assets,
     vulnerabilities |-> g.vulnerabilities, edges |-> g.edges, tool_calls |-> calls]

\* the bodies GET /api/runs/{run}/snapshot can answer with
SnapshotBodies(run) == {Snapshot(run, Graph1, calls) : calls \in SnapCallSeqs}

\* the bodies GET /api/runs can answer with (arrays of run ids)
RunLists == {<<>>, <<"r1", "r2">>, <<"r2">>}

(***************************************************************************)
(* Live events (LiveEvent of types.ts) and the messages that carry them.   *)
(***************************************************************************)
LiveEvent(type, ts, agent, tool, target, status, summary, args, result) ==
    [type |-> type, ts |-> ts, agent_id |-> agent, tool |-> tool, target |-> target,
     status |-> status, summary |-> summary, args |-> args, result_summary |-> result]

\* a tool call with a ts, key-equal to SnapCall1 once mapped
EventWithTs == LiveEvent("mcp_tool_call", "1970-01-01T00:00:00.050Z", "a1", "nmap", "s1",
                         "OK", "scan", [url |-> "s1"], "2 ports")
\* a tool call without ts and with a non-string agent_id
EventNoTs == LiveEvent("mcp_tool_call", Undefined, NonString, "curl", "http://t",
                       "FAILED", Undefined, NotAnObject, Undefined)
EventOther == LiveEvent("agent_started", "1970-01-01T00:00:00.200Z", "a1", Undefined,
                        Undefined, Undefined, Undefined, NotAnObject, Undefined)

ToolCallEvents == {EventWithTs, EventNoTs}
\* event.data of a message: JSON text of an event, or text that is not JSON
Messages == {[json |-> TRUE, payload |-> e] : e \in ToolCallEvents \cup {EventOther}}
            \cup {[json |-> FALSE, payload |-> EventOther]}

\* Math.random().toString(36).slice(2)
RandomTokens == {"k3j9x"}

mapEventToToolCall(event, nowMs, token) ==
    [id |-> "live-" \o token,
     ts |-> Coalesce(event.ts, toISOString(nowMs)),
     agent_id |-> IF IsString(event.agent_id) THEN event.agent_id ELSE Undefined,
     tool |-> IF IsString(event.tool) THEN event.tool ELSE Undefined,
     target |-> IF IsString(event.target) THEN event.target ELSE Undefined,
     status |-> IF IsString(event.status) THEN event.status ELSE Undefined,
     summary |-> IF IsString(event.result_summary) THEN event.result_summary ELSE Undefined,
     args |-> IF event.args # NotAnObject THEN event.args ELSE EmptyArgs,
     result_summary |-> IF IsString(event.result_summary) THEN event.result_summary
                        ELSE Undefined]

\* mutant: equality by id instead of the composite key
isSameToolCallById(a, b) == a.id = b.id

isSameToolCall(a, b) ==
    /\ a.ts = b.ts
    /\ a.agent_id = b.agent_id
    /\ a.tool = b.tool
    /\ a.target = b.target
    /\ a.result_summary = b.result_summary

(***************************************************************************)
(* State.                                                                  *)
(***************************************************************************)
VARIABLES
    \* React state of App
    runs, selectedRun, snapshot, loading, error, toolCalls, terminalFilters,
    agentFilter, severityFilter, timeRange, selectedNode, highlightedNodeId,
    assetTerminalFilter,
    \* whether App is mounted
    mounted,
    \* GET /api/runs requests in flight: captured selectedRun -> how many
    runsInflight,
    \* GET /api/runs/{run}/snapshot requests in flight: run -> how many
    inflight,
    \* instances of the WebSocket effect that can still act: one record
    \* [id, run, open, refreshHandle] per closure whose socket is open or
    \* whose timer is pending
    conns,
    \* id of the instance of the effect that is mounted now, 0 when none
    current,
    \* window.setTimeout table: pending timeouts [id, conn, run, due]
    timers,
    \* sockets the cleanup has closed whose onerror can still be called:
    \* run -> how many
    closing,
    \* Date.now(), in ms
    now,
    \* state of TerminalView: the id of the row that is expanded, or Null
    expandedCallId,
    \* history: what the step that led here did, when it is of note:
    \* "discarded" (a snapshot landed and dropped entries that are not in it),
    \* "duplicate" (a live tool call was dropped as a duplicate), "unparsed" (a
    \* message that is not JSON was received), "cleared" (the run select was
    \* used while an error was displayed), "refresh" (the timeout of the
    \* debounce fired), "" otherwise
    lastEffect,
    \* history: "initial", "selected" (one node selected from the initial
    \* coordinator state), "deselected" (then deselected), or "other"
    coordTrace

reactVars == <<runs, selectedRun, snapshot, loading, error, toolCalls>>
coordVars == <<terminalFilters, agentFilter, severityFilter, timeRange, selectedNode,
               highlightedNodeId, assetTerminalFilter>>
netVars == <<runsInflight, inflight, conns, current, timers, closing>>
vars == <<reactVars, coordVars, netVars, mounted, now, expandedCallId, lastEffect, coordTrace>>

defaultTerminalFilters ==
    [agentId |-> "all", tool |-> "all", onlyErrors |-> FALSE, onlySuccess |-> FALSE]

CapturedRuns == Runs \cup {NoRun}

Init ==
    /\ runs = <<>>
    /\ selectedRun = NoRun
    /\ snapshot = NullObject
    /\ loading = FALSE
    /\ error = Null
    /\ toolCalls = <<>>
    /\ terminalFilters = defaultTerminalFilters
    /\ agentFilter = "all"
    /\ severityFilter = "all"
    /\ timeRange = "all"
    /\ selectedNode = NullObject
    /\ highlightedNodeId = Null
    /\ assetTerminalFilter = Null
    /\ mounted = TRUE
    \* the mount effect has called fetchRuns()
    /\ runsInflight = [r \in CapturedRuns |-> IF r = NoRun THEN 1 ELSE 0]
    /\ inflight = [r \in Runs |-> 0]
    /\ conns = {}
    /\ current = 0
    /\ timers = {}
    /\ closing = [r \in Runs |-> 0]
    /\ now = 0
    /\ expandedCallId = Null
    /\ lastEffect = ""
    /\ coordTrace = "initial"

RECURSIVE SumOver(_, _)
SumOver(f, S) == IF S = {} THEN 0 ELSE LET x == CHOOSE y \in S : TRUE IN f[x] + SumOver(f, S \ {x})
InflightTotal == SumOver(inflight, Runs)
RunsInflightTotal == SumOver(runsInflight, CapturedRuns)

\* the smallest positive integer that is no id of a record of S
FreshId(S) == CHOOSE n \in 1..(Cardinality(S) + 1) : \A x \in S : x.id # n

(***************************************************************************)
(* Effects of App that depend on selectedRun.                              *)
(***************************************************************************)
ConnOf(id) == CHOOSE c \in conns : c.id = id

\* the selectedRun of the render whose effects ran last
EffectRun == IF current = 0 THEN NoRun ELSE ConnOf(current).run

\* a render with another selectedRun is committed and React has not yet run
\* its effects
EffectsPending == mounted /\ EffectRun # selectedRun

ClosingTotal == SumOver(closing, Runs)

\* the mounted instance of the WebSocket effect has a socket that is not closed
CurrentIsOpen == current # 0 /\ ConnOf(current).open

\* cleanup of the WebSocket effect: the sockets that close() leaves closing
CleanupClosing ==
    IF CurrentIsOpen THEN [closing EXCEPT ![ConnOf(current).run] = @ + 1] ELSE closing

\* the closures that can still act: socket open, timer pending, or mounted
Live(cs, ts, cur) == {c \in cs : c.open \/ c.id = cur \/ \E t \in ts : t.conn = c.id}

\* cleanup of the WebSocket effect: window.clearTimeout(refreshHandle)
CleanupTimers ==
    IF current = 0 THEN timers
    ELSE LET h == ConnOf(current).refreshHandle IN
         IF h # 0 THEN {t \in timers : t.id # h} ELSE timers

\* cleanup of the WebSocket effect: socket.close()
CleanupConns ==
    {IF c.id = current THEN [c EXCEPT !.open = FALSE] ELSE c : c \in conns}

\* mutant: loadSnapshot does not clear the error
loadSnapshotCallKeepingError(runId) ==
    /\ loading' = TRUE
    /\ error' = error
    /\ inflight' = [inflight EXCEPT ![runId] = @ + 1]

\* loadSnapshot(runId) up to its await
loadSnapshotCall(runId) ==
    /\ loading' = TRUE
    /\ error' = Null
    /\ inflight' = [inflight EXCEPT ![runId] = @ + 1]

\* what React runs when selectedRun has changed to newRun: the cleanup of the
\* WebSocket effect, then the effects in the order of their declaration
\* (fetchRuns, loadSnapshot, new WebSocket).  pendingRuns is the bag of
\* GET /api/runs requests the step starts from.
RunEffects(newRun, pendingRuns) ==
    /\ CurrentIsOpen => ClosingTotal < MaxClosing
    /\ timers' = CleanupTimers
    /\ closing' = CleanupClosing
    /\ LET kept == Live(CleanupConns, timers', 0) IN
       IF newRun = NoRun
       THEN /\ conns' = kept
            /\ current' = 0
       ELSE LET id == FreshId(kept) IN
            /\ conns' = kept \cup {[id |-> id, run |-> newRun, open |-> TRUE,
                                    refreshHandle |-> 0]}
            /\ current' = id
    /\ runsInflight' = [pendingRuns EXCEPT ![newRun] = @ + 1]
    /\ IF newRun # NoRun
       THEN loadSnapshotCall(newRun)
       ELSE UNCHANGED <<loading, error, inflight>>

CoordIsInitial(node, highlight, agentF, termF, sevF, assetF) ==
    /\ node = NullObject
    /\ highlight = Null
    /\ agentF = "all"
    /\ termF = defaultTerminalFilters
    /\ sevF = "all"
    /\ assetF = Null

TraceAfter ==
    IF CoordIsInitial(selectedNode', highlightedNodeId', agentFilter', terminalFilters',
                      severityFilter', assetTerminalFilter')
    THEN "initial" ELSE "other"

(***************************************************************************)
(* Run list and run selection.                                             *)
(***************************************************************************)
Contains(seq, x) == \E i \in 1..Len(seq) : seq[i] = x

\* the run fetchRuns selects, given the selectedRun its closure captured
fetchRunsSelection(data, captured) ==
    IF Len(data) = 0 THEN NoRun
    ELSE IF captured = NoRun \/ ~Contains(data, captured) THEN data[1]
    ELSE selectedRun

\* GET /api/runs answers 200 with the array data: the state fetchRuns sets.
\* The effects of a new selectedRun run in FlushPassiveEffects; a response
\* that selects another run while effects are pending is rendered after them.
RunsResponseOk(captured, data) ==
    /\ mounted
    /\ runsInflight[captured] > 0
    /\ fetchRunsSelection(data, captured) = selectedRun \/ ~EffectsPending
    /\ runs' = data
    /\ selectedRun' = fetchRunsSelection(data, captured)
    /\ runsInflight' = [runsInflight EXCEPT ![captured] = @ - 1]
    /\ UNCHANGED <<snapshot, loading, error, toolCalls, coordVars, mounted, inflight, conns,
                   current, closing, timers, now, expandedCallId, coordTrace>>
    /\ lastEffect' = ""

\* React runs the effects of the render that committed a new selectedRun, in
\* a task after the commit
FlushPassiveEffects ==
    /\ EffectsPending
    /\ selectedRun = NoRun \/ InflightTotal < MaxInflight
    /\ RunsInflightTotal < MaxRunsInflight
    /\ RunEffects(selectedRun, runsInflight)
    /\ UNCHANGED <<runs, selectedRun, snapshot, toolCalls, coordVars, mounted, now,
                   expandedCallId, coordTrace>>
    /\ lastEffect' = ""

FetchFailures == {"http", "network"}
\* the message of the Error a failed fetch of the run list ends in
RunsFailureMessage(kind) == IF kind = "http" THEN "Unable to fetch runs" ELSE "Failed to fetch"
\* the message of the Error a failed fetch of a snapshot ends in
SnapshotFailureMessage(kind) ==
    IF kind = "http" THEN "500 Internal Server Error" ELSE "Failed to fetch"

\* GET /api/runs fails: fetchRuns().catch((err) => setError(err.message))
RunsResponseFail(captured, kind) ==
    /\ mounted
    /\ runsInflight[captured] > 0
    /\ runsInflight' = [runsInflight EXCEPT ![captured] = @ - 1]
    /\ error' = RunsFailureMessage(kind)
    /\ UNCHANGED <<runs, selectedRun, snapshot, loading, toolCalls, coordVars, mounted,
                   inflight, conns, current, closing, timers, now, expandedCallId, coordTrace>>
    /\ lastEffect' = ""

\* the user picks run value in the run <select>
handleRunChange(value) ==
    /\ mounted
    /\ ~EffectsPending
    /\ Contains(runs, value)
    /\ value # selectedRun
    /\ InflightTotal < MaxInflight
    /\ RunsInflightTotal < MaxRunsInflight
    /\ selectedRun' = value
    /\ terminalFilters' = defaultTerminalFilters
    /\ agentFilter' = "all"
    /\ severityFilter' = "all"
    /\ assetTerminalFilter' = Null
    /\ RunEffects(value, runsInflight)
    /\ UNCHANGED <<runs, snapshot, toolCalls, timeRange, selectedNode, highlightedNodeId,
                   mounted, now, expandedCallId>>
    /\ lastEffect' = IF error # Null THEN "cleared" ELSE ""
    /\ coordTrace' = TraceAfter

(***************************************************************************)
(* Snapshot store: the rest of loadSnapshot, after its await.              *)
(***************************************************************************)
Range(seq) == {seq[i] : i \in 1..Len(seq)}

\* mutant: the response's tool calls are merged into the list
SnapshotResponseOkMerging(runId, data) ==
    /\ mounted
    /\ inflight[runId] > 0
    /\ inflight' = [inflight EXCEPT ![runId] = @ - 1]
    /\ snapshot' = data
    /\ toolCalls' = toolCalls \o SelectSeq(data.tool_calls, LAMBDA x : x \notin Range(toolCalls))
    /\ loading' = FALSE
    /\ UNCHANGED <<runs, selectedRun, error, coordVars, mounted, runsInflight, conns, current, closing,
                   timers, now, expandedCallId, coordTrace>>
    /\ lastEffect' = ""

\* the response is 2xx and its body parses: the try block runs to its end
SnapshotResponseOk(runId, data) ==
    /\ mounted
    /\ inflight[runId] > 0
    /\ inflight' = [inflight EXCEPT ![runId] = @ - 1]
    /\ snapshot' = data
    /\ toolCalls' = data.tool_calls
    /\ loading' = FALSE
    /\ lastEffect' = IF \E i \in 1..Len(toolCalls) : toolCalls[i] \notin Range(data.tool_calls)
                     THEN "discarded" ELSE ""
    /\ UNCHANGED <<runs, selectedRun, error, coordVars, mounted, runsInflight, conns, current, closing,
                   timers, now, expandedCallId, coordTrace>>

\* mutant: a failure clears what is on display
SnapshotResponseFailClearing(runId, kind) ==
    /\ mounted
    /\ inflight[runId] > 0
    /\ inflight' = [inflight EXCEPT ![runId] = @ - 1]
    /\ error' = SnapshotFailureMessage(kind)
    /\ loading' = FALSE
    /\ snapshot' = NullObject
    /\ toolCalls' = <<>>
    /\ UNCHANGED <<runs, selectedRun, coordVars, mounted, runsInflight,
                   conns, current, closing, timers, now, expandedCallId, coordTrace>>
    /\ lastEffect' = ""

\* the response is not 2xx, or fetch rejects: the catch block runs
SnapshotResponseFail(runId, kind) ==
    /\ mounted
    /\ inflight[runId] > 0
    /\ inflight' = [inflight EXCEPT ![runId] = @ - 1]
    /\ error' = SnapshotFailureMessage(kind)
    /\ loading' = FALSE
    /\ UNCHANGED <<runs, selectedRun, snapshot, toolCalls, coordVars, mounted, runsInflight,
                   conns, current, closing, timers, now, expandedCallId, coordTrace>>
    /\ lastEffect' = ""

(***************************************************************************)
(* Live event ingester: the handlers of one instance of the WebSocket      *)
(* effect.                                                                 *)
(***************************************************************************)
\* mutant: scheduleRefresh without its guard
scheduleRefreshTimersUnguarded(c) ==
    timers \cup {[id |-> FreshId(timers), conn |-> c.id, run |-> c.run,
                  due |-> now + DEBOUNCE_MS]}

\* scheduleRefresh() in closure c: the timeout table afterwards
scheduleRefreshTimers(c) ==
    IF c.refreshHandle # 0 THEN timers
    ELSE timers \cup {[id |-> FreshId(timers), conn |-> c.id, run |-> c.run,
                       due |-> now + DEBOUNCE_MS]}

\* scheduleRefresh() in closure c: its refreshHandle afterwards
scheduleRefreshHandle(c) ==
    IF c.refreshHandle # 0 THEN c.refreshHandle ELSE FreshId(timers)

\* mutant: a new call is put first
appendIfNewFirst(currentCalls, call) ==
    IF \E i \in 1..Len(currentCalls) : isSameToolCall(currentCalls[i], call)
    THEN currentCalls
    ELSE <<call>> \o currentCalls

\* the updater of setToolCalls in onmessage
appendIfNew(currentCalls, call) ==
    IF \E i \in 1..Len(currentCalls) : isSameToolCall(currentCalls[i], call)
    THEN currentCalls
    ELSE Append(currentCalls, call)

IsToolCallMessage(msg) == msg.json /\ msg.payload.type = "mcp_tool_call"

\* mutant: a message that does not parse is shown as an error
WsMessageParseFailSurfaced(c, msg, token) ==
    /\ mounted
    /\ c \in conns
    /\ c.open
    /\ Len(toolCalls) < MaxCalls
    /\ IF IsToolCallMessage(msg)
       THEN toolCalls' = appendIfNew(toolCalls, mapEventToToolCall(msg.payload, now, token))
       ELSE UNCHANGED toolCalls
    /\ timers' = scheduleRefreshTimers(c)
    /\ conns' = (conns \ {c}) \cup {[c EXCEPT !.refreshHandle = scheduleRefreshHandle(c)]}
    /\ error' = IF msg.json THEN error ELSE "Failed to parse live event"
    /\ UNCHANGED <<runs, selectedRun, snapshot, loading, coordVars, mounted,
                   runsInflight, inflight, current, closing, now, expandedCallId, coordTrace>>
    /\ lastEffect' = IF ~msg.json THEN "unparsed"
                     ELSE IF ~IsToolCallMessage(msg) THEN ""
                     ELSE IF toolCalls' = toolCalls THEN "duplicate" ELSE ""

\* socket.onmessage of closure c receives msg
WsMessage(c, msg, token) ==
    /\ mounted
    /\ c \in conns
    /\ c.open
    /\ Len(toolCalls) < MaxCalls
    /\ IF IsToolCallMessage(msg)
       THEN toolCalls' = appendIfNew(toolCalls, mapEventToToolCall(msg.payload, now, token))
       ELSE UNCHANGED toolCalls
    /\ timers' = scheduleRefreshTimers(c)
    /\ conns' = (conns \ {c}) \cup {[c EXCEPT !.refreshHandle = scheduleRefreshHandle(c)]}
    /\ UNCHANGED <<runs, selectedRun, snapshot, loading, error, coordVars, mounted,
                   runsInflight, inflight, current, closing, now, expandedCallId, coordTrace>>
    /\ lastEffect' = IF ~msg.json THEN "unparsed"
                     ELSE IF ~IsToolCallMessage(msg) THEN ""
                     ELSE IF toolCalls' = toolCalls THEN "duplicate" ELSE ""

\* mutant: onerror opens a new connection for the run
WsErrorReconnecting(c) ==
    /\ mounted
    /\ c \in conns
    /\ c.open
    /\ error' = "WebSocket connection lost"
    /\ LET kept == Live((conns \ {c}) \cup {[c EXCEPT !.open = FALSE]}, timers, 0) IN
       /\ conns' = kept \cup {[id |-> FreshId(kept), run |-> c.run, open |-> TRUE,
                                refreshHandle |-> 0]}
       /\ current' = FreshId(kept)
    /\ UNCHANGED <<runs, selectedRun, snapshot, loading, toolCalls, coordVars, mounted,
                   runsInflight, inflight, timers, closing, now, expandedCallId, coordTrace>>
    /\ lastEffect' = ""

\* socket.onerror of closure c; the browser closes a socket that failed
WsError(c) ==
    /\ mounted
    /\ c \in conns
    /\ c.open
    /\ error' = "WebSocket connection lost"
    /\ conns' = Live((conns \ {c}) \cup {[c EXCEPT !.open = FALSE]}, timers, current)
    /\ UNCHANGED <<runs, selectedRun, snapshot, loading, toolCalls, coordVars, mounted,
                   runsInflight, inflight, current, closing, timers, now, expandedCallId, coordTrace>>
    /\ lastEffect' = ""

\* socket.onerror of a closure whose socket the cleanup has closed
WsErrorClosed(runId) ==
    /\ mounted
    /\ closing[runId] > 0
    /\ closing' = [closing EXCEPT ![runId] = @ - 1]
    /\ error' = "WebSocket connection lost"
    /\ UNCHANGED <<runs, selectedRun, snapshot, loading, toolCalls, coordVars, mounted,
                   runsInflight, inflight, conns, current, timers, now, expandedCallId,
                   coordTrace>>
    /\ lastEffect' = ""

\* a socket the cleanup has closed ends its closing handshake: no handler of
\* App is attached to "close"
WsClosed(runId) ==
    /\ closing[runId] > 0
    /\ closing' = [closing EXCEPT ![runId] = @ - 1]
    /\ UNCHANGED <<reactVars, coordVars, runsInflight, inflight, conns, current, timers,
                   mounted, now, expandedCallId, coordTrace>>
    /\ lastEffect' = ""

\* mutant: the timeout clears the handle and fetches nothing
TimerFireNoFetch(t) ==
    /\ t \in timers
    /\ now >= t.due
    /\ InflightTotal < MaxInflight
    /\ timers' = timers \ {t}
    /\ conns' = Live({IF c.id = t.conn THEN [c EXCEPT !.refreshHandle = 0] ELSE c : c \in conns},
                     timers', current)
    /\ UNCHANGED <<runs, selectedRun, snapshot, toolCalls, coordVars, mounted, runsInflight,
                   loading, error, inflight,
                   current, closing, now, expandedCallId, coordTrace>>
    /\ lastEffect' = "refresh"

\* the timeout t of scheduleRefresh fires
TimerFire(t) ==
    /\ t \in timers
    /\ now >= t.due
    /\ InflightTotal < MaxInflight
    /\ timers' = timers \ {t}
    /\ conns' = Live({IF c.id = t.conn THEN [c EXCEPT !.refreshHandle = 0] ELSE c : c \in conns},
                     timers', current)
    /\ loadSnapshotCall(t.run)
    /\ UNCHANGED <<runs, selectedRun, snapshot, toolCalls, coordVars, mounted, runsInflight,
                   current, closing, now, expandedCallId, coordTrace>>
    /\ lastEffect' = "refresh"

\* time passes; pending effects run in the next task, before TickMs has passed
Tick ==
    /\ ~EffectsPending
    /\ now + TickMs <= MaxClock * TickMs
    /\ now' = now + TickMs
    /\ UNCHANGED <<reactVars, coordVars, netVars, mounted, expandedCallId, coordTrace>>
    /\ lastEffect' = ""

\* App is unmounted: the cleanup of the WebSocket effect runs
Unmount ==
    /\ mounted
    /\ ~EffectsPending
    /\ mounted' = FALSE
    /\ timers' = CleanupTimers
    /\ closing' = [r \in Runs |-> 0]
    /\ conns' = Live(CleanupConns, timers', 0)
    /\ current' = 0
    /\ UNCHANGED <<reactVars, coordVars, runsInflight, inflight, now, expandedCallId,
                   coordTrace>>
    /\ lastEffect' = ""

(***************************************************************************)
(* Selection coordinator and filter inputs.                                *)
(***************************************************************************)
UpperLetters == "ABCDEFGHIJKLMNOPQRSTUVWXYZ"
LowerLetters == "abcdefghijklmnopqrstuvwxyz"

\* String.prototype.toLowerCase
RECURSIVE toLowerCase(_)
toLowerCase(s) ==
    IF Len(s) = 0 THEN ""
    ELSE LET ch == SubSeq(s, 1, 1)
             k == IndexFrom(UpperLetters, ch, 1)
         IN (IF k = 0 THEN ch ELSE SubSeq(LowerLetters, k, k)) \o toLowerCase(SubSeq(s, 2, Len(s)))

\* the nodes GraphView renders for a snapshot, as the tap handler reports them
GraphNodes(snap) ==
    IF snap = NullObject THEN {}
    ELSE {[id |-> "agent:" \o a.id, entityType |-> "agent"] : a \in Range(snap.agents)}
         \cup {[id |-> "asset:" \o a.id, entityType |-> "asset"] : a \in Range(snap.assets)}
         \cup {[id |-> "vuln:" \o v.id, entityType |-> "vuln"] : v \in Range(snap.vulnerabilities)}

\* snapshot?.vulnerabilities.find((candidate) => candidate.id === id)
FindVuln(snap, id) ==
    IF snap = NullObject THEN NullObject
    ELSE LET hits == {i \in 1..Len(snap.vulnerabilities) : snap.vulnerabilities[i].id = id} IN
         IF hits = {} THEN NullObject
         ELSE snap.vulnerabilities[CHOOSE i \in hits : \A j \in hits : i <= j]

\* handleNodeSelect: the agent filter of the graph afterwards
NodeSelectAgentFilter(selection) ==
    IF selection # NullObject /\ selection.entityType = "agent"
    THEN Coalesce(RawIdOf(selection.id), "all")
    ELSE agentFilter

\* handleNodeSelect: the filters of the terminal afterwards
NodeSelectTerminalFilters(selection) ==
    IF selection = NullObject THEN terminalFilters
    ELSE IF selection.entityType = "agent"
    THEN [terminalFilters EXCEPT !.agentId = Coalesce(RawIdOf(selection.id), "all")]
    ELSE IF selection.entityType = "vuln"
    THEN LET vuln == FindVuln(snapshot, Coalesce(RawIdOf(selection.id), "")) IN
         IF vuln # NullObject /\ Truthy(vuln.agent_id)
         THEN [terminalFilters EXCEPT !.agentId = vuln.agent_id]
         ELSE terminalFilters
    ELSE terminalFilters

\* handleNodeSelect: the asset-target filter afterwards
NodeSelectAssetFilter(selection) ==
    IF selection = NullObject THEN Null
    ELSE IF selection.entityType = "agent" THEN Null
    ELSE IF selection.entityType = "asset" THEN Coalesce(RawIdOf(selection.id), Null)
    ELSE LET vuln == FindVuln(snapshot, Coalesce(RawIdOf(selection.id), "")) IN
         IF vuln # NullObject /\ Truthy(vuln.asset_id) THEN vuln.asset_id
         ELSE assetTerminalFilter

\* handleNodeSelect: the highlight afterwards
NodeSelectHighlight(selection) ==
    IF selection = NullObject THEN Null ELSE selection.id

handleNodeSelect(selection) ==
    /\ mounted
    /\ ~EffectsPending
    /\ selectedNode' = selection
    /\ highlightedNodeId' = NodeSelectHighlight(selection)
    /\ agentFilter' = NodeSelectAgentFilter(selection)
    /\ terminalFilters' = NodeSelectTerminalFilters(selection)
    /\ assetTerminalFilter' = NodeSelectAssetFilter(selection)
    /\ UNCHANGED <<reactVars, severityFilter, timeRange, netVars, mounted, now, expandedCallId>>
    /\ lastEffect' = ""
    /\ coordTrace' =
         IF selection # NullObject
         THEN (IF coordTrace = "initial" THEN "selected" ELSE "other")
         ELSE (IF coordTrace = "selected" THEN "deselected" ELSE TraceAfter)

\* a tap on a node of the graph
NodeSelect(selection) ==
    /\ selection \in GraphNodes(snapshot)
    /\ handleNodeSelect(selection)

\* a tap on the background of the graph, or the Clear button of the details panel
NodeDeselect == handleNodeSelect(NullObject)

\* the options of the agent <select> of the toolbar
AgentOptions == IF snapshot = NullObject THEN {"all"}
                ELSE {"all"} \cup {a.id : a \in Range(snapshot.agents)}

\* the options of the severity <select> of the toolbar
SeverityOptions ==
    IF snapshot = NullObject THEN {"all"}
    ELSE {"all"} \cup {toLowerCase(v.severity) :
                        v \in {w \in Range(snapshot.vulnerabilities) : Truthy(w.severity)}}

TIME_RANGES == {"all", "5m", "15m", "1h"}

SetAgentFilter(value) ==
    /\ mounted
    /\ ~EffectsPending
    /\ value \in AgentOptions
    /\ agentFilter' = value
    /\ UNCHANGED <<reactVars, terminalFilters, severityFilter, timeRange, selectedNode,
                   highlightedNodeId, assetTerminalFilter, netVars, mounted, now, expandedCallId>>
    /\ lastEffect' = ""
    /\ coordTrace' = TraceAfter

SetSeverityFilter(value) ==
    /\ mounted
    /\ ~EffectsPending
    /\ value \in SeverityOptions
    /\ severityFilter' = value
    /\ UNCHANGED <<reactVars, terminalFilters, agentFilter, timeRange, selectedNode,
                   highlightedNodeId, assetTerminalFilter, netVars, mounted, now, expandedCallId>>
    /\ lastEffect' = ""
    /\ coordTrace' = TraceAfter

SetTimeRange(value) ==
    /\ mounted
    /\ ~EffectsPending
    /\ value \in TIME_RANGES
    /\ timeRange' = value
    /\ UNCHANGED <<reactVars, terminalFilters, agentFilter, severityFilter, selectedNode,
                   highlightedNodeId, assetTerminalFilter, netVars, mounted, now, expandedCallId, coordTrace>>
    /\ lastEffect' = ""

\* onFiltersChange of TerminalView: one of its checkboxes is toggled
ToggleTerminalFilter(field) ==
    /\ mounted
    /\ ~EffectsPending
    /\ field \in {"onlyErrors", "onlySuccess"}
    /\ terminalFilters' = [terminalFilters EXCEPT ![field] = ~@]
    /\ UNCHANGED <<reactVars, agentFilter, severityFilter, timeRange, selectedNode,
                   highlightedNodeId, assetTerminalFilter, netVars, mounted, now, expandedCallId>>
    /\ lastEffect' = ""
    /\ coordTrace' = TraceAfter

(***************************************************************************)
(* Graph projection: the edges GraphView renders for a snapshot.           *)
(***************************************************************************)
\* the keys of the Maps agents, vulns and assets of GraphView
AgentIds(snap) == {a.id : a \in Range(snap.agents)}
VulnIds(snap) == {v.id : v \in Range(snap.vulnerabilities)}
AssetIds(snap) == {a.id : a \in Range(snap.assets)}

\* mutant: the vulnerabilities are looked up before the agents
prefixVulnFirst(snap, id) ==
    IF id \in VulnIds(snap) THEN "vuln:" \o id
    ELSE IF id \in AgentIds(snap) THEN "agent:" \o id
    ELSE IF id \in AssetIds(snap) THEN "asset:" \o id
    ELSE id

\* prefix of GraphView
prefix(snap, id) ==
    IF id \in AgentIds(snap) THEN "agent:" \o id
    ELSE IF id \in VulnIds(snap) THEN "vuln:" \o id
    ELSE IF id \in AssetIds(snap) THEN "asset:" \o id
    ELSE id

\* the data of the edge elements of GraphView, in the order of the snapshot
ProjectedEdges(snap) ==
    IF snap = NullObject THEN <<>>
    ELSE SelectSeq([i \in 1..Len(snap.edges) |->
                       [id |-> snap.edges[i].id,
                        source |-> prefix(snap, snap.edges[i].source),
                        target |-> prefix(snap, snap.edges[i].target),
                        label |-> Coalesce(snap.edges[i].label, snap.edges[i].relation)]],
                   LAMBDA e : Truthy(e.source) /\ Truthy(e.target))

(***************************************************************************)
(* Filter pipeline: what the terminal shows of the tool-call list.         *)
(***************************************************************************)
Digits == "0123456789"
\* the value of a decimal digit, -1 for another character
DigitOf(ch) == IndexFrom(Digits, ch, 1) - 1

\* the value of a string of decimal digits, -1 when a character is no digit
RECURSIVE DigitsValue(_)
DigitsValue(s) ==
    IF Len(s) = 0 THEN 0
    ELSE LET d == DigitOf(SubSeq(s, Len(s), Len(s)))
             rest == DigitsValue(SubSeq(s, 1, Len(s) - 1))
         IN IF d < 0 \/ rest < 0 THEN -1 ELSE 10 * rest + d

\* getTime() of an invalid Date; no instant of the model is negative
NaN == -1

\* new Date(ts).getTime() for the ISO strings of the model's day, NaN otherwise
DateGetTime(ts) ==
    IF Len(ts) # 24 THEN NaN
    ELSE LET h == DigitsValue(SubSeq(ts, 12, 13))
             m == DigitsValue(SubSeq(ts, 15, 16))
             sec == DigitsValue(SubSeq(ts, 18, 19))
             ms == DigitsValue(SubSeq(ts, 21, 23))
         IN IF /\ SubSeq(ts, 1, 11) = "1970-01-01T"
               /\ SubSeq(ts, 14, 14) = ":" /\ SubSeq(ts, 17, 17) = ":"
               /\ SubSeq(ts, 20, 20) = "." /\ SubSeq(ts, 24, 24) = "Z"
               /\ h >= 0 /\ h < 24 /\ m >= 0 /\ m < 60 /\ sec >= 0 /\ sec < 60 /\ ms >= 0
            THEN ((h * 60 + m) * 60 + sec) * 1000 + ms
            ELSE NaN

\* mutant: the windows of "5m" and "1h" are exchanged
computeThresholdSwapped(range, nowMs) ==
    IF range = "5m" THEN nowMs - 60 * 60 * 1000
    ELSE IF range = "15m" THEN nowMs - 15 * 60 * 1000
    ELSE IF range = "1h" THEN nowMs - 5 * 60 * 1000
    ELSE 0

computeThreshold(range, nowMs) ==
    IF range = "5m" THEN nowMs - 5 * 60 * 1000
    ELSE IF range = "15m" THEN nowMs - 15 * 60 * 1000
    ELSE IF range = "1h" THEN nowMs - 60 * 60 * 1000
    ELSE 0

\* timeFilteredCalls of App, computed at instant nowMs; a comparison with NaN
\* is false
timeFilteredCalls(calls, range, nowMs) ==
    IF range = "all" THEN calls
    ELSE SelectSeq(calls, LAMBDA call :
             /\ DateGetTime(call.ts) # NaN
             /\ DateGetTime(call.ts) >= computeThreshold(range, nowMs))

\* call.args?.url
ArgsUrl(args) == IF "url" \in DOMAIN args THEN args.url ELSE Undefined

\* assetFilteredCalls of App
assetFilteredCalls(calls, assetFilter) ==
    IF ~Truthy(assetFilter) THEN calls
    ELSE SelectSeq(calls, LAMBDA call :
             call.target = assetFilter \/ ArgsUrl(call.args) = assetFilter)

\* (call.status ?? "").toLowerCase()
normalizedStatus(call) == toLowerCase(Coalesce(call.status, ""))
isError(call) ==
    normalizedStatus(call) # "" /\ normalizedStatus(call) # "ok"
        /\ normalizedStatus(call) # "success"
isSuccess(call) == normalizedStatus(call) = "ok" \/ normalizedStatus(call) = "success"

\* mutant: a call without status passes the toggles
filteredCallsLenient(calls, filters) ==
    SelectSeq(calls, LAMBDA call :
        /\ ~(filters.agentId # "all" /\ call.agent_id # filters.agentId)
        /\ ~(filters.tool # "all" /\ call.tool # filters.tool)
        /\ ~(filters.onlyErrors /\ isSuccess(call))
        /\ ~(filters.onlySuccess /\ isError(call)))

\* filteredCalls of TerminalView
filteredCalls(calls, filters) ==
    SelectSeq(calls, LAMBDA call :
        /\ ~(filters.agentId # "all" /\ call.agent_id # filters.agentId)
        /\ ~(filters.tool # "all" /\ call.tool # filters.tool)
        /\ ~(filters.onlyErrors /\ ~isError(call))
        /\ ~(filters.onlySuccess /\ ~isSuccess(call)))

\* the tool calls App hands to TerminalView, the memo of timeFilteredCalls
\* being of instant at
TerminalCalls(at) ==
    assetFilteredCalls(timeFilteredCalls(toolCalls, timeRange, at), assetTerminalFilter)

\* the rows of the terminal
TerminalRows(at) == filteredCalls(TerminalCalls(at), terminalFilters)

\* the options of the agent <select> of the terminal
TerminalAgents(at) ==
    {"all"} \cup {call.agent_id : call \in {c \in Range(TerminalCalls(at)) : Truthy(c.agent_id)}}

\* the options of the tool <select> of the terminal
TerminalTools(at) ==
    {"all"} \cup {call.tool : call \in {c \in Range(TerminalCalls(at)) : Truthy(c.tool)}}

\* onFiltersChange of TerminalView: an agent is picked
SetTerminalAgent(value) ==
    /\ mounted
    /\ ~EffectsPending
    /\ value \in TerminalAgents(now)
    /\ terminalFilters' = [terminalFilters EXCEPT !.agentId = value]
    /\ UNCHANGED <<reactVars, agentFilter, severityFilter, timeRange, selectedNode,
                   highlightedNodeId, assetTerminalFilter, netVars, mounted, now, expandedCallId>>
    /\ lastEffect' = ""
    /\ coordTrace' = TraceAfter

\* onFiltersChange of TerminalView: a tool is picked
SetTerminalTool(value) ==
    /\ mounted
    /\ ~EffectsPending
    /\ value \in TerminalTools(now)
    /\ terminalFilters' = [terminalFilters EXCEPT !.tool = value]
    /\ UNCHANGED <<reactVars, agentFilter, severityFilter, timeRange, selectedNode,
                   highlightedNodeId, assetTerminalFilter, netVars, mounted, now, expandedCallId>>
    /\ lastEffect' = ""
    /\ coordTrace' = TraceAfter

\* mutant: a call without target and agent_id clears the highlight
TerminalSelectHighlightClearing(call) ==
    IF Truthy(call.target) THEN "asset:" \o call.target
    ELSE IF Truthy(call.agent_id) THEN "agent:" \o call.agent_id
    ELSE Null

\* handleTerminalSelect: the highlight afterwards
TerminalSelectHighlight(call) ==
    IF Truthy(call.target) THEN "asset:" \o call.target
    ELSE IF Truthy(call.agent_id) THEN "agent:" \o call.agent_id
    ELSE highlightedNodeId

\* a click on a row of the terminal: toggleExpand, then handleTerminalSelect
TerminalSelect(call) ==
    /\ mounted
    /\ ~EffectsPending
    /\ call \in Range(TerminalRows(now))
    /\ expandedCallId' = IF expandedCallId = call.id THEN Null ELSE call.id
    /\ highlightedNodeId' = TerminalSelectHighlight(call)
    /\ UNCHANGED <<reactVars, terminalFilters, agentFilter, severityFilter, timeRange,
                   selectedNode, assetTerminalFilter, netVars, mounted, now>>
    /\ lastEffect' = ""
    /\ coordTrace' = TraceAfter

(***************************************************************************)
(* Specifications.                                                         *)
(***************************************************************************)
\* synchronisation: run list, run selection, snapshot fetches, live stream
NextSyncOver(runLists) ==
    \/ \E captured \in CapturedRuns, data \in runLists : RunsResponseOk(captured, data)
    \/ FlushPassiveEffects
    \/ \E captured \in CapturedRuns, kind \in FetchFailures : RunsResponseFail(captured, kind)
    \/ \E value \in Runs : handleRunChange(value)
    \/ \E runId \in Runs : \E data \in SnapshotBodies(runId) : SnapshotResponseOk(runId, data)
    \/ \E runId \in Runs, kind \in FetchFailures : SnapshotResponseFail(runId, kind)
    \/ \E c \in conns, msg \in Messages, token \in RandomTokens : WsMessage(c, msg, token)
    \/ \E c \in conns : WsError(c)
    \/ \E runId \in Runs : WsErrorClosed(runId)
    \/ \E runId \in Runs : WsClosed(runId)
    \/ \E t \in timers : TimerFire(t)
    \/ Tick
    \/ Unmount

Spec == Init /\ [][NextSyncOver(RunLists)]_vars

\* the same with a run list that does not change
StableRunLists == {<<"r1", "r2">>}
SpecStable == Init /\ [][NextSyncOver(StableRunLists)]_vars

\* the same under fairness, with one body per response: time passes, a
\* timeout that is due is run by the event loop, and a fetch that was issued
\* settles
LiveBody(runId) == Snapshot(runId, Graph1, <<SnapCall1>>)

SnapshotSettles ==
    \/ \E runId \in Runs : SnapshotResponseOk(runId, LiveBody(runId))
    \/ \E runId \in Runs : SnapshotResponseFail(runId, "http")

TimeoutRuns == \E t \in timers : TimerFire(t)

NextLive ==
    \/ \E captured \in CapturedRuns, data \in StableRunLists : RunsResponseOk(captured, data)
    \/ FlushPassiveEffects
    \/ \E captured \in CapturedRuns : RunsResponseFail(captured, "http")
    \/ \E value \in Runs : handleRunChange(value)
    \/ SnapshotSettles
    \/ \E c \in conns, msg \in Messages, token \in RandomTokens : WsMessage(c, msg, token)
    \/ \E c \in conns : WsError(c)
    \/ \E runId \in Runs : WsErrorClosed(runId)
    \/ \E runId \in Runs : WsClosed(runId)
    \/ TimeoutRuns
    \/ Tick
    \/ Unmount

SpecLive ==
    /\ Init
    /\ [][NextLive]_vars
    /\ WF_vars(Tick)
    /\ WF_vars(TimeoutRuns)
    /\ WF_vars(SnapshotSettles)
    /\ WF_vars(FlushPassiveEffects)

\* selection coordinator: the snapshot of a run on display, nodes selected,
\* filters set, runs switched
CoordRunLists == {<<"r1", "r2">>}
CoordBodies(run) == {Snapshot(run, Graph1, <<SnapCall2, SnapCall1>>)}

NextCoord ==
    \/ \E captured \in CapturedRuns, data \in CoordRunLists : RunsResponseOk(captured, data)
    \/ FlushPassiveEffects
    \/ \E runId \in Runs : WsClosed(runId)
    \/ \E value \in Runs : handleRunChange(value)
    \/ \E runId \in Runs : \E data \in CoordBodies(runId) : SnapshotResponseOk(runId, data)
    \/ \E selection \in GraphNodes(snapshot) : NodeSelect(selection)
    \/ NodeDeselect
    \/ \E value \in AgentOptions : SetAgentFilter(value)
    \/ \E value \in SeverityOptions : SetSeverityFilter(value)
    \/ \E value \in TIME_RANGES : SetTimeRange(value)
    \/ \E field \in {"onlyErrors", "onlySuccess"} : ToggleTerminalFilter(field)

SpecCoord == Init /\ [][NextCoord]_vars

\* the view: one run's snapshot on display, at the start of the day or two
\* hours later
ViewCall3 == ToolCall("tc-3", "1970-01-01T01:58:00.000Z", "a:2", "nmap", Null, Null,
                      Null, [url |-> "s1"], Null)
ViewCall4 == ToolCall("tc-4", "1970-01-01T01:50:00.000Z", Null, Null, Null, "Success",
                      Null, EmptyArgs, "done")
ViewCall5 == ToolCall("tc-5", "1970-01-01T01:30:00.000Z", "a1", "curl", "", "",
                      Null, [url |-> "http://t"], Null)
ViewCall6 == ToolCall("tc-6", "not-a-date", Null, "nmap", "http", "error",
                      Null, EmptyArgs, Null)
ViewCallSeqs == {<<SnapCall2, SnapCall1, ViewCall3>>, <<ViewCall4, ViewCall5, ViewCall6>>}

\* an agent and an asset whose ids hold a ":", an asset that shares its id
\* with a vulnerability and a vulnerability that shares its id with an agent,
\* an edge to an id of no entity and one from the empty id
ViewGraph ==
    [agents |-> <<Agent("a1"), Agent("a:2")>>,
     assets |-> <<Asset("s1"), Asset("http://t"), Asset("v1")>>,
     vulnerabilities |-> <<Vulnerability("v1", "a1", "s1", "High"),
                           Vulnerability("a1", Null, Null, Null)>>,
     edges |-> <<Edge("e1", "a1", "s1"), Edge("e2", "v1", "http://t"), Edge("e3", "a:2", "zz"),
                 Edge("e4", "", "s1")>>]

ViewInstants == {0, 2 * 60 * 60 * 1000}

InitView ==
    /\ runs = <<"r1", "r2">>
    /\ selectedRun = "r1"
    /\ \E calls \in ViewCallSeqs :
          /\ snapshot = Snapshot("r1", ViewGraph, calls)
          /\ toolCalls = calls
    /\ loading = FALSE
    /\ error = Null
    /\ terminalFilters = defaultTerminalFilters
    /\ agentFilter = "all"
    /\ severityFilter = "all"
    /\ timeRange = "all"
    /\ selectedNode = NullObject
    /\ highlightedNodeId = Null
    /\ assetTerminalFilter = Null
    /\ mounted = TRUE
    /\ runsInflight = [r \in CapturedRuns |-> 0]
    /\ inflight = [r \in Runs |-> 0]
    /\ conns = {[id |-> 1, run |-> "r1", open |-> TRUE, refreshHandle |-> 0]}
    /\ current = 1
    /\ timers = {}
    /\ closing = [r \in Runs |-> 0]
    /\ now \in ViewInstants
    /\ expandedCallId = Null
    /\ lastEffect = ""
    /\ coordTrace = "initial"

\* selections: nodes of the graph and rows of the terminal
NextView ==
    \/ \E selection \in GraphNodes(snapshot) : NodeSelect(selection)
    \/ NodeDeselect
    \/ \E call \in Range(toolCalls) : TerminalSelect(call)

SpecView == InitView /\ [][NextView]_vars

\* filters: nodes of the graph, the time range and the filters of the terminal
NextFilter ==
    \/ \E selection \in GraphNodes(snapshot) : NodeSelect(selection)
    \/ NodeDeselect
    \/ \E value \in TIME_RANGES : SetTimeRange(value)
    \/ \E field \in {"onlyErrors", "onlySuccess"} : ToggleTerminalFilter(field)
    \/ \E value \in TerminalAgents(now) : SetTerminalAgent(value)
    \/ \E value \in TerminalTools(now) : SetTerminalTool(value)

SpecFilter == InitView /\ [][NextFilter]_vars

\* the severity filter of the graph: vulnerabilities of three severities and
\* one without a severity
SeverityGraph ==
    [agents |-> <<Agent("a1")>>,
     assets |-> <<Asset("s1")>>,
     vulnerabilities |-> <<Vulnerability("v1", "a1", "s1", "High"),
                           Vulnerability("v2", Null, Null, Null),
                           Vulnerability("v3", "a1", Null, "Low"),
                           Vulnerability("v4", Null, "s1", "Unknown")>>,
     edges |-> <<Edge("e1", "a1", "s1"), Edge("e2", "v1", "s1")>>]

\* shouldFadeVuln of GraphView, under the severity filter of the toolbar
shouldFadeVuln(severity) ==
    IF severityFilter = "all" THEN FALSE
    ELSE (IF severity \in {Null, Undefined} THEN "unknown" ELSE toLowerCase(severity))
             # severityFilter

\* const severity = vuln.severity?.toLowerCase() ?? "low"
VulnNodeSeverity(vuln) ==
    IF vuln.severity \in {Null, Undefined} THEN "low" ELSE toLowerCase(vuln.severity)

\* classes of the node of a vulnerability
VulnNodeClasses(vuln) ==
    "vuln" \o (IF shouldFadeVuln(VulnNodeSeverity(vuln)) THEN " faded" ELSE "")

InitSeverity ==
    /\ runs = <<"r1", "r2">>
    /\ selectedRun = "r1"
    /\ snapshot = Snapshot("r1", SeverityGraph, <<SnapCall2, SnapCall1>>)
    /\ toolCalls = <<SnapCall2, SnapCall1>>
    /\ loading = FALSE
    /\ error = Null
    /\ terminalFilters = defaultTerminalFilters
    /\ agentFilter = "all"
    /\ severityFilter = "all"
    /\ timeRange = "all"
    /\ selectedNode = NullObject
    /\ highlightedNodeId = Null
    /\ assetTerminalFilter = Null
    /\ mounted = TRUE
    /\ runsInflight = [r \in CapturedRuns |-> 0]
    /\ inflight = [r \in Runs |-> 0]
    /\ conns = {[id |-> 1, run |-> "r1", open |-> TRUE, refreshHandle |-> 0]}
    /\ current = 1
    /\ timers = {}
    /\ closing = [r \in Runs |-> 0]
    /\ now = 0
    /\ expandedCallId = Null
    /\ lastEffect = ""
    /\ coordTrace = "initial"

NextSeverity ==
    \/ \E selection \in GraphNodes(snapshot) : NodeSelect(selection)
    \/ NodeDeselect
    \/ \E value \in AgentOptions : SetAgentFilter(value)
    \/ \E value \in SeverityOptions : SetSeverityFilter(value)

SpecSeverity == InitSeverity /\ [][NextSeverity]_vars

(***************************************************************************)
(* Properties.                                                             *)
(***************************************************************************)
ClockInstants == {k * TickMs : k \in 0..MaxClock}
IsLive(call) == Len(call.id) >= 5 /\ SubSeq(call.id, 1, 5) = "live-"
\* call is what mapEventToToolCall makes of event at some instant
IsImageOf(call, event) ==
    \E ms \in ClockInstants, token \in RandomTokens : call = mapEventToToolCall(event, ms, token)
ImagesOf(event) == {i \in 1..Len(toolCalls) : IsImageOf(toolCalls[i], event)}

\* C1: a snapshot response for a run that is not the selected run is discarded:
\* it sets neither the snapshot on display nor the tool-call list.
C1_StaleResponseDiscarded ==
    [][\A runId \in Runs : \A data \in SnapshotBodies(runId) :
          (SnapshotResponseOk(runId, data) /\ runId # selectedRun)
              => (snapshot' = snapshot /\ toolCalls' = toolCalls)]_vars

\* C2 as stated: whatever the payload (with or without ts), the list never holds
\* two tool calls made from the same payload.
C2_SamePayloadOnce ==
    \A event \in ToolCallEvents : Cardinality(ImagesOf(event)) <= 1

\* C2 amended: for a payload that carries a string ts, the list never holds two
\* tool calls made from it; a live tool call is never key-equal to an entry
\* before it (live or from the snapshot); and ingesting a tool-call event with
\* a string ts leaves the list unchanged when a key-equal entry exists and
\* appends exactly one entry otherwise.
C2_DedupState ==
    /\ \A event \in ToolCallEvents : IsString(event.ts) => Cardinality(ImagesOf(event)) <= 1
    /\ \A i, j \in 1..Len(toolCalls) :
          (i < j /\ IsLive(toolCalls[j])) => ~isSameToolCall(toolCalls[i], toolCalls[j])

C2_DedupStep ==
    \A c \in conns, msg \in Messages, token \in RandomTokens :
        (WsMessage(c, msg, token) /\ IsToolCallMessage(msg) /\ IsString(msg.payload.ts))
            => LET call == mapEventToToolCall(msg.payload, now, token) IN
               IF \E i \in 1..Len(toolCalls) :
                      /\ toolCalls[i].ts = call.ts
                      /\ toolCalls[i].agent_id = call.agent_id
                      /\ toolCalls[i].tool = call.tool
                      /\ toolCalls[i].target = call.target
                      /\ toolCalls[i].result_summary = call.result_summary
               THEN toolCalls' = toolCalls
               ELSE toolCalls' = Append(toolCalls, call)

C2_IdempotentWithTs == [](C2_DedupState) /\ [][C2_DedupStep]_vars

\* the event with a ts has just been received again and dropped: the entry
\* it equals is the live one its first ingestion appended
C2_Witness ==
    /\ lastEffect = "duplicate"
    /\ \E i \in 1..Len(toolCalls) :
          IsLive(toolCalls[i]) /\ IsImageOf(toolCalls[i], EventWithTs)

\* C3: a successful snapshot response replaces the snapshot by the response and
\* the tool-call list by the response's tool_calls, in their order; nothing of
\* the previous list stays.
C3_SuccessReplaces ==
    [][\A runId \in Runs : \A data \in SnapshotBodies(runId) :
          SnapshotResponseOk(runId, data)
              => (snapshot' = data /\ toolCalls' = data.tool_calls)]_vars

\* a snapshot has just landed and dropped a live tool call
C3_Witness ==
    /\ lastEffect = "discarded"
    /\ snapshot # NullObject
    /\ Len(toolCalls) > 0
    /\ toolCalls = snapshot.tool_calls

\* C4: a failed snapshot fetch sets the error to a message and leaves the
\* snapshot and the tool-call list as they were.
C4_FailureKeepsSnapshot ==
    [][\A runId \in Runs, kind \in FetchFailures :
          SnapshotResponseFail(runId, kind)
              => /\ IsString(error') /\ error' # ""
                 /\ snapshot' = snapshot
                 /\ toolCalls' = toolCalls]_vars

\* a fetch has failed with a snapshot and a live tool call on display
C4_Witness ==
    /\ error = SnapshotFailureMessage("http")
    /\ snapshot # NullObject
    /\ Len(toolCalls) > Len(snapshot.tool_calls)
    /\ ~loading

\* C5: a closure has at most one timeout pending, its refreshHandle; a message
\* received while it is pending leaves the timeout table unchanged (no second
\* timeout, same due time) and issues no fetch; a message received while none
\* is pending adds one timeout due after the debounce window; a timeout that
\* fires issues exactly one fetch, for its run, and leaves none pending.
TimersOf(ts, connId) == {t \in ts : t.conn = connId}

C5_OnePending ==
    \A c \in conns :
        /\ Cardinality(TimersOf(timers, c.id)) <= 1
        /\ \A t \in TimersOf(timers, c.id) : c.refreshHandle = t.id

C5_MessageStep ==
    \A c \in conns, msg \in Messages, token \in RandomTokens :
        WsMessage(c, msg, token)
            => /\ inflight' = inflight
               /\ IF TimersOf(timers, c.id) # {}
                  THEN timers' = timers
                  ELSE \E t \in timers' :
                          /\ timers' = timers \cup {t}
                          /\ t.conn = c.id
                          /\ t.run = c.run
                          /\ t.due = now + DEBOUNCE_MS

C5_FireStep ==
    \A t \in timers :
        TimerFire(t)
            => /\ inflight' = [inflight EXCEPT ![t.run] = @ + 1]
               /\ timers' = timers \ {t}
               /\ TimersOf(timers', t.conn) = {}

C5_DebounceCoalescing == [](C5_OnePending) /\ [][C5_MessageStep /\ C5_FireStep]_vars

\* a timeout set at instant 0 is still pending at a later instant, at which a
\* message has been ingested
C5_Witness ==
    /\ now > 0
    /\ \E t \in timers : t.due = DEBOUNCE_MS /\ t.conn = current
    /\ \E i \in 1..Len(toolCalls) :
          IsLive(toolCalls[i]) /\ toolCalls[i].ts = toISOString(now)

\* C6: every pending timeout and every open socket belongs to the instance of
\* the effect that is mounted now, which is for the selected run; a fetch is
\* issued for the selected run only.
C6_Attached ==
    /\ \A t \in timers : mounted /\ t.conn = current /\ t.run = selectedRun
    /\ \A c \in conns : c.open => (mounted /\ c.id = current /\ c.run = selectedRun)

C6_FetchStep == \A runId \in Runs : inflight'[runId] > inflight[runId] => runId = selectedRun'

C6_DetachCancels == [](C6_Attached) /\ [][C6_FetchStep]_vars

\* C7: at most one snapshot fetch per run is in flight.
C7_OneFetchPerRun == \A runId \in Runs : inflight[runId] <= 1

\* C8: from the initial coordinator state, selecting a node and then deselecting
\* leaves the agent filter (graph and terminal) "all", the asset-target filter
\* null and the highlight null.
C8_SelectDeselectRestores ==
    coordTrace = "deselected"
        => /\ agentFilter = "all"
           /\ terminalFilters.agentId = "all"
           /\ assetTerminalFilter = Null
           /\ highlightedNodeId = Null

\* C9: a step that changes the selected run from one run to another leaves the
\* coordinator in its initial state.
C9_RunChangeResets ==
    [][(selectedRun \in Runs /\ selectedRun' \in Runs /\ selectedRun' # selectedRun)
          => CoordIsInitial(selectedNode', highlightedNodeId', agentFilter', terminalFilters',
                            severityFilter', assetTerminalFilter')]_vars

\* C10: selecting the node of a vulnerability of the snapshot that has an
\* asset_id and an agent_id sets the asset-target filter to the asset_id, the
\* agent filter (graph and terminal, as selecting an agent does) to the
\* agent_id, and the highlight to the node's id.
C10_VulnSelectSetsBoth ==
    [][snapshot # NullObject =>
          \A i \in 1..Len(snapshot.vulnerabilities) :
              LET vuln == snapshot.vulnerabilities[i]
                  node == [id |-> "vuln:" \o vuln.id, entityType |-> "vuln"]
              IN (NodeSelect(node) /\ IsString(vuln.asset_id) /\ IsString(vuln.agent_id))
                     => /\ assetTerminalFilter' = vuln.asset_id
                        /\ agentFilter' = vuln.agent_id
                        /\ terminalFilters'.agentId = vuln.agent_id
                        /\ highlightedNodeId' = node.id]_vars

\* C11: selecting the node of asset s of the snapshot sets the asset-target
\* filter to s and the highlight to "asset:<s>", leaves the agent filter of the
\* graph and the filters of the terminal unchanged, and the terminal then shows
\* only tool calls whose target or args.url is s.
C11_AssetSelectSetsFilter ==
    [][snapshot # NullObject =>
          \A i \in 1..Len(snapshot.assets) :
              LET s == snapshot.assets[i].id
                  node == [id |-> "asset:" \o s, entityType |-> "asset"]
              IN NodeSelect(node)
                     => /\ assetTerminalFilter' = s
                        /\ highlightedNodeId' = "asset:" \o s
                        /\ agentFilter' = agentFilter
                        /\ terminalFilters' = terminalFilters
                        /\ \A call \in Range(filteredCalls(
                                  assetFilteredCalls(
                                      timeFilteredCalls(toolCalls', timeRange', now'),
                                      assetTerminalFilter'),
                                  terminalFilters')) :
                               call.target = s \/ ArgsUrl(call.args) = s]_vars

\* C12: selecting the node of agent a of the snapshot, whatever the state of
\* the coordinator, sets the agent filter of the graph and of the terminal to
\* a, the asset-target filter to null and the highlight to "agent:<a>".
C12_AgentSelectSetsFilter ==
    [][snapshot # NullObject =>
          \A i \in 1..Len(snapshot.agents) :
              LET a == snapshot.agents[i].id
                  node == [id |-> "agent:" \o a, entityType |-> "agent"]
              IN NodeSelect(node)
                     => /\ agentFilter' = a
                        /\ terminalFilters'.agentId = a
                        /\ assetTerminalFilter' = Null
                        /\ highlightedNodeId' = "agent:" \o a]_vars

\* C13: a click on a terminal row changes, of the coordinator, the highlight
\* only: it becomes "asset:<target>" when the call has a (non-empty) target,
\* else "agent:<agent_id>" when it has a (non-empty) agent_id, else it stays;
\* the agent filter of the graph, the filters of the terminal, the asset-target
\* filter, the selected node, the snapshot and the tool-call list stay.  A click
\* on a row is the step that changes the expanded row; the call clicked is the
\* one of the row that is expanded or collapsed.
C13_ClickedCall ==
    LET id == IF expandedCallId' # Null THEN expandedCallId' ELSE expandedCallId
    IN toolCalls[CHOOSE i \in 1..Len(toolCalls) : toolCalls[i].id = id]

C13_TerminalSelectHighlightOnly ==
    [][expandedCallId' # expandedCallId
          => LET call == C13_ClickedCall IN
             /\ highlightedNodeId' =
                    IF IsString(call.target) /\ call.target # ""
                    THEN "asset:" \o call.target
                    ELSE IF IsString(call.agent_id) /\ call.agent_id # ""
                    THEN "agent:" \o call.agent_id
                    ELSE highlightedNodeId
             /\ agentFilter' = agentFilter
             /\ terminalFilters' = terminalFilters
             /\ assetTerminalFilter' = assetTerminalFilter
             /\ selectedNode' = selectedNode
             /\ severityFilter' = severityFilter
             /\ timeRange' = timeRange
             /\ snapshot' = snapshot
             /\ toolCalls' = toolCalls]_vars

\* with asset s1 selected, the row of a call without target has been clicked:
\* the highlight is the call's agent, the selection and its filter are kept
C13_Witness ==
    /\ selectedNode # NullObject
    /\ selectedNode.id = "asset:s1"
    /\ assetTerminalFilter = "s1"
    /\ expandedCallId = ViewCall3.id
    /\ highlightedNodeId = "agent:" \o ViewCall3.agent_id

\* C14: an edge of the snapshot with an endpoint that is the id of no agent,
\* asset or vulnerability is not among the projected edges.
C14_DanglingEdgeDropped ==
    snapshot # NullObject =>
        \A i \in 1..Len(snapshot.edges) :
            LET edge == snapshot.edges[i]
                known == AgentIds(snapshot) \cup AssetIds(snapshot) \cup VulnIds(snapshot)
            IN (edge.source \notin known \/ edge.target \notin known)
                   => \A j \in 1..Len(ProjectedEdges(snapshot)) :
                          ProjectedEdges(snapshot)[j].id # edge.id

\* C15: for every edge of the snapshot whose two endpoints are ids of an agent,
\* an asset or a vulnerability, the projection holds one edge of that id, whose
\* source and target are "<kind>:<rawId>" with the kind found by looking the
\* raw id up among the agents first, then the vulnerabilities, then the
\* assets, and are ids of projected nodes.
C15_KindOf(id) ==
    IF \E i \in 1..Len(snapshot.agents) : snapshot.agents[i].id = id THEN "agent"
    ELSE IF \E i \in 1..Len(snapshot.vulnerabilities) : snapshot.vulnerabilities[i].id = id
    THEN "vuln"
    ELSE IF \E i \in 1..Len(snapshot.assets) : snapshot.assets[i].id = id THEN "asset"
    ELSE "none"

C15_PrefixRoundTrip ==
    snapshot # NullObject =>
        \A i \in 1..Len(snapshot.edges) :
            LET edge == snapshot.edges[i]
                hits == {j \in 1..Len(ProjectedEdges(snapshot)) :
                            ProjectedEdges(snapshot)[j].id = edge.id}
            IN (C15_KindOf(edge.source) # "none" /\ C15_KindOf(edge.target) # "none")
                   => /\ Cardinality(hits) = 1
                      /\ \A j \in hits :
                            LET e == ProjectedEdges(snapshot)[j] IN
                            /\ e.source = C15_KindOf(edge.source) \o ":" \o edge.source
                            /\ e.target = C15_KindOf(edge.target) \o ":" \o edge.target
                            /\ \E n \in GraphNodes(snapshot) :
                                  n.id = e.source /\ n.entityType = C15_KindOf(edge.source)
                            /\ \E n \in GraphNodes(snapshot) :
                                  n.id = e.target /\ n.entityType = C15_KindOf(edge.target)

\* the snapshot on display has an edge from a raw id that is both an agent's
\* and a vulnerability's and one from a raw id that is both a vulnerability's
\* and an asset's; both are projected
C15_Witness ==
    /\ snapshot # NullObject
    /\ \E i, j \in 1..Len(snapshot.edges) :
          /\ snapshot.edges[i].source \in AgentIds(snapshot) \cap VulnIds(snapshot)
          /\ snapshot.edges[i].target \in AssetIds(snapshot)
          /\ snapshot.edges[j].source \in VulnIds(snapshot) \cap AssetIds(snapshot)
          /\ snapshot.edges[j].target \in AssetIds(snapshot)
    /\ Len(ProjectedEdges(snapshot)) >= 2
    /\ selectedNode # NullObject

\* C16: a tool call is an error when its lower-cased status is non-empty and
\* neither "ok" nor "success", a success when it is "ok" or "success", neither
\* without a status ("FAILED" is an error, "OK" a success).  The rows of the
\* terminal are the rows without the two toggles, in their order, less the
\* calls that are no error when "only errors" is on and less the calls that
\* are no success when "only success" is on; with both on there is no row.
C16_Class(call) ==
    LET st == IF IsString(call.status) THEN toLowerCase(call.status) ELSE "" IN
    IF st = "" THEN "neither"
    ELSE IF st = "ok" \/ st = "success" THEN "success"
    ELSE "error"

C16_StatusFilter ==
    /\ \A call \in Range(toolCalls) :
          /\ isError(call) <=> C16_Class(call) = "error"
          /\ isSuccess(call) <=> C16_Class(call) = "success"
          /\ call.status = "FAILED" => C16_Class(call) = "error"
          /\ call.status = "OK" => C16_Class(call) = "success"
          /\ ~IsString(call.status) => C16_Class(call) = "neither"
    /\ LET untoggled == filteredCalls(TerminalCalls(now),
                            [terminalFilters EXCEPT !.onlyErrors = FALSE, !.onlySuccess = FALSE])
       IN /\ TerminalRows(now) =
                SelectSeq(untoggled, LAMBDA call :
                    /\ terminalFilters.onlyErrors => C16_Class(call) = "error"
                    /\ terminalFilters.onlySuccess => C16_Class(call) = "success")
          /\ (terminalFilters.onlyErrors /\ terminalFilters.onlySuccess)
                 => TerminalRows(now) = <<>>

\* "only errors" is on and the terminal shows the failed call of three, the
\* others being a success and a call without status
C16_Witness ==
    /\ terminalFilters.onlyErrors
    /\ ~terminalFilters.onlySuccess
    /\ TerminalCalls(now) = <<SnapCall2, SnapCall1, ViewCall3>>
    /\ TerminalRows(now) = <<SnapCall2>>

\* C17: at one instant and for one tool-call list, the calls a smaller window
\* keeps are among the calls a larger window keeps, in the same order, the
\* windows being 5 min < 15 min < 1 hour < all.
C17_Rank(range) ==
    IF range = "5m" THEN 1 ELSE IF range = "15m" THEN 2 ELSE IF range = "1h" THEN 3 ELSE 4

C17_TimeFilterMonotone ==
    \A w1, w2 \in TIME_RANGES :
        C17_Rank(w1) < C17_Rank(w2)
            => LET small == timeFilteredCalls(toolCalls, w1, now)
                   large == timeFilteredCalls(toolCalls, w2, now)
               IN /\ Range(small) \subseteq Range(large)
                  /\ small = SelectSeq(large, LAMBDA call : call \in Range(small))
                  /\ w2 = "all" => large = toolCalls

\* 15 min is selected and each larger window keeps more calls of the list
C17_Witness ==
    /\ timeRange = "15m"
    /\ Len(timeFilteredCalls(toolCalls, "5m", now))
           < Len(timeFilteredCalls(toolCalls, timeRange, now))
    /\ Len(timeFilteredCalls(toolCalls, timeRange, now))
           < Len(timeFilteredCalls(toolCalls, "1h", now))
    /\ Len(timeFilteredCalls(toolCalls, "1h", now)) < Len(toolCalls)
    /\ TerminalCalls(now) = timeFilteredCalls(toolCalls, timeRange, now)

\* C18: a message that does not parse changes neither the error, nor the
\* tool-call list, nor the snapshot; its connection stays open, with a
\* debounced refresh pending, so that the messages that follow are received.
C18_AbsorbedStep ==
    \A c \in conns, msg \in Messages, token \in RandomTokens :
        (WsMessage(c, msg, token) /\ ~msg.json)
            => /\ error' = error
               /\ toolCalls' = toolCalls
               /\ snapshot' = snapshot
               /\ selectedRun' = selectedRun
               /\ \E d \in conns' :
                     /\ d.id = c.id
                     /\ d.open
                     /\ \E t \in timers' : t.id = d.refreshHandle /\ t.conn = d.id

C18_StreamContinues ==
    lastEffect = "unparsed"
        => /\ mounted
           /\ \E c \in conns : c.id = current /\ c.open /\ c.run = selectedRun

C18_ParseFailureAbsorbed == [](C18_StreamContinues) /\ [][C18_AbsorbedStep]_vars

\* a message that does not parse has just been received while an error and a
\* live tool call were on display: both are still there
C18_Witness ==
    /\ lastEffect = "unparsed"
    /\ error # Null
    /\ \E i \in 1..Len(toolCalls) : IsLive(toolCalls[i])
    /\ timers # {}

\* C19: a connection error, of the open socket or of a socket the cleanup has
\* closed, sets the error to the connection-lost message, leaves the snapshot
\* and the tool-call list unchanged and opens no connection; a step that
\* opens a connection is the attach of a newly selected run (the run select,
\* or the effects of the render that selected it), and the connection is for
\* that run.
C19_Opened ==
    {d \in conns' : d.open /\ ~\E e \in conns : e.id = d.id /\ e.run = d.run /\ e.open}

C19_ErrorStep ==
    \A c \in conns :
        WsError(c)
            => /\ error' = "WebSocket connection lost"
               /\ snapshot' = snapshot
               /\ toolCalls' = toolCalls
               /\ C19_Opened = {}
               /\ inflight' = inflight

C19_ClosedErrorStep ==
    \A runId \in Runs :
        WsErrorClosed(runId)
            => /\ error' = "WebSocket connection lost"
               /\ snapshot' = snapshot
               /\ toolCalls' = toolCalls
               /\ C19_Opened = {}
               /\ inflight' = inflight

C19_AttachStep ==
    \A d \in C19_Opened :
        /\ selectedRun' # selectedRun \/ EffectsPending
        /\ d.run = selectedRun'
        /\ d.id = current'

C19_NoReconnect == [][C19_ErrorStep /\ C19_ClosedErrorStep /\ C19_AttachStep]_vars

\* the stream of the selected run has failed: the error is displayed and the
\* run has no open connection
C19_Witness ==
    /\ mounted
    /\ selectedRun \in Runs
    /\ error = "WebSocket connection lost"
    /\ \A c \in conns : ~c.open
    /\ snapshot # NullObject

\* C20: the step that completes the switch to a run (the run select, or the
\* effects of the render in which fetchRuns selected it) starts the load of
\* that run and leaves the error null.
C20_RunSwitchClearsError ==
    [][(selectedRun' \in Runs /\ EffectRun # selectedRun' /\ EffectRun' = selectedRun')
          => /\ error' = Null
             /\ inflight'[selectedRun'] = inflight[selectedRun'] + 1
             /\ loading']_vars

\* the run select has just been used while an error was displayed
C20_Witness ==
    /\ lastEffect = "cleared"
    /\ error = Null
    /\ loading
    /\ selectedRun \in Runs

\* C21: at most one connection is open; an open connection is the one of the
\* mounted instance of the effect and is for the selected run; none is open
\* when no run is selected or the view is unmounted.  Hence a run switch leaves
\* the old connection closed in the state where the new one is open.
C21_OneConnection ==
    LET open == {c \in conns : c.open} IN
    /\ Cardinality(open) <= 1
    /\ \A c \in open : c.run = selectedRun /\ c.id = current /\ mounted
    /\ selectedRun = NoRun => open = {}

\* C22: the tool-call list is the tool_calls of the snapshot on display, in
\* their order, followed by live calls only; a step that changes the list
\* without a snapshot landing appends one live call at the end and leaves the
\* entries before it as they were, whatever its ts.
C22_Base == IF snapshot = NullObject THEN <<>> ELSE snapshot.tool_calls

C22_SnapshotThenLive ==
    /\ Len(toolCalls) >= Len(C22_Base)
    /\ SubSeq(toolCalls, 1, Len(C22_Base)) = C22_Base
    /\ \A i \in (Len(C22_Base) + 1)..Len(toolCalls) : IsLive(toolCalls[i])

C22_AppendStep ==
    (toolCalls' # toolCalls /\ inflight' = inflight)
        => /\ Len(toolCalls') = Len(toolCalls) + 1
           /\ SubSeq(toolCalls', 1, Len(toolCalls)) = toolCalls
           /\ IsLive(toolCalls'[Len(toolCalls')])
           /\ snapshot' = snapshot

C22_ArrivalOrder == [](C22_SnapshotThenLive) /\ [][C22_AppendStep]_vars

\* two live calls are in the list, the one that arrived first having the
\* later ts
C22_Witness ==
    /\ Len(toolCalls) = 2
    /\ IsLive(toolCalls[1])
    /\ IsLive(toolCalls[2])
    /\ DateGetTime(toolCalls[1].ts) > DateGetTime(toolCalls[2].ts)
    /\ DateGetTime(toolCalls[2].ts) # NaN

\* C23: a message of any kind received on the stream of the selected run
\* leaves a timeout pending for that run; and a timeout pending for the
\* selected run (due within the time the model covers) leads to a state where
\* the timeout has fired and a fetch for that run is in flight, unless the
\* run is switched or the view is unmounted first.
C23_ScheduledStep ==
    \A c \in conns, msg \in Messages, token \in RandomTokens :
        WsMessage(c, msg, token)
            => \E t \in timers' : t.conn = c.id /\ t.run = c.run /\ t.run = selectedRun'

C23_Pending(r) ==
    /\ mounted
    /\ selectedRun = r
    /\ \E t \in timers : t.run = r /\ t.due <= MaxClock * TickMs

C23_Fetched(r) ==
    \/ ~mounted
    \/ selectedRun # r
    \/ /\ lastEffect = "refresh"
       /\ inflight[r] > 0
       /\ loading
       /\ \A t \in timers : t.run # r

C23_MessageLeadsToFetch ==
    /\ [][C23_ScheduledStep]_vars
    /\ \A r \in Runs : C23_Pending(r) ~> C23_Fetched(r)

\* the timeout of the debounce has just fired with a live call in the list:
\* the fetch of the refresh is in flight for the selected run
C23_Witness ==
    /\ lastEffect = "refresh"
    /\ mounted
    /\ selectedRun \in Runs
    /\ inflight[selectedRun] > 0
    /\ timers = {}
    /\ \E i \in 1..Len(toolCalls) : IsLive(toolCalls[i])

\* C24: the live tool call a message appends has the summary of the event
\* when that is a string and none otherwise, and likewise the result_summary
\* of the event.
C24_SummaryCopied ==
    [][\A c \in conns, msg \in Messages, token \in RandomTokens :
          (WsMessage(c, msg, token) /\ IsToolCallMessage(msg) /\ toolCalls' # toolCalls)
              => LET call == toolCalls'[Len(toolCalls')]
                     event == msg.payload
                 IN /\ call.summary = IF IsString(event.summary) THEN event.summary
                                      ELSE Undefined
                    /\ call.result_summary = IF IsString(event.result_summary)
                                             THEN event.result_summary ELSE Undefined]_vars

\* C25: a vulnerability without a severity is shown unfaded in the graph
\* exactly when the severity filter is "all" or "unknown"; it is faded when
\* the filter is "low".
C25_MissingSeverityUnknown ==
    snapshot # NullObject =>
        \A vuln \in Range(snapshot.vulnerabilities) :
            vuln.severity \in {Null, Undefined} =>
                (VulnNodeClasses(vuln) = "vuln" <=> severityFilter \in {"all", "unknown"})

\* the list holds the tool calls of the snapshot of run r
C26_HoldsCallsOf(r) ==
    /\ snapshot # NullObject
    /\ snapshot.run_id = r
    /\ Len(snapshot.tool_calls) > 0
    /\ Len(toolCalls) >= Len(snapshot.tool_calls)
    /\ SubSeq(toolCalls, 1, Len(snapshot.tool_calls)) = snapshot.tool_calls

C26_AppendStep ==
    toolCalls' # toolCalls =>
        \A c \in conns, msg \in Messages, token \in RandomTokens :
            (WsMessage(c, msg, token) /\ IsToolCallMessage(msg))
                => \A r \in Runs : C26_HoldsCallsOf(r) => r = c.run

\* C26: the list never holds tool calls of two runs: while a run is selected
\* the list holds no tool calls of the snapshot of another run, and a live
\* event of a stream is never appended to a list that holds the tool calls of
\* the snapshot of another run.
C26_SingleRunList ==
    /\ [](\A r \in Runs : (selectedRun \in Runs /\ C26_HoldsCallsOf(r)) => r = selectedRun)
    /\ [][C26_AppendStep]_vars

\* C27: when a run is selected and no snapshot fetch is in flight, a snapshot
\* on display is the snapshot of the selected run.
C27_NoStaleSnapshot ==
    (mounted /\ selectedRun \in Runs /\ InflightTotal = 0 /\ snapshot # NullObject)
        => snapshot.run_id = selectedRun

\* C28: the loading flag is true exactly when a snapshot fetch is in flight.
C28_LoadingIffInflight ==
    mounted => (loading <=> InflightTotal > 0)

====
